---- MODULE Spec2Model ----
(***************************************************************************)
(* simplescraper: the request-orchestration engine of src/simplescraper.py *)
(* (RateLimit, ExponentialBackoff, RateLimiter, Scraper.request and its    *)
(* headers) as a state machine of cooperatively scheduled request tasks.   *)
(*                                                                         *)
(* Time is a discrete wall clock `now` in ticks of 1/TicksPerSecond        *)
(* second.  A task is one `await scraper.request(...)`; an action is the   *)
(* code a task runs between two suspension points of the event loop        *)
(* (asyncio.sleep, the transport's I/O), which asyncio runs atomically.    *)
(***************************************************************************)
EXTENDS Integers, Sequences, FiniteSets, TLC

(***************************************************************************)
(* Bounds of the model.                                                    *)
(***************************************************************************)
\* The clock stops at MaxTime ticks.
MaxTime == 4
\* The clock of the header profile runs for MaxLifetimes lifetimes more.
MaxLifetimes == 2
\* Resolution of the clock: ticks per second (random.random() in [0,1) is
\* one of 0 .. TicksPerSecond-1 ticks).
TicksPerSecond == 2

None == "None"
Tasks == {"t1", "t2"}

(***************************************************************************)
(* DatePart and RateLimit (src/simplescraper.py 36-87).                    *)
(***************************************************************************)
DatePart == {"SECOND", "MINUTE", "HOUR", "DAY", "WEEK", "MONTH", "YEAR"}

\* A wrong validation: the lower bound of range_req is not checked.
RateLimitInvalid_NoLowerBound(limit) ==
    \/ limit.max_req <= 0
    \/ limit.rate_limit_per_route /\ limit.get_route_path = None
    \/ /\ limit.range_req # None
       /\ limit.range_req[1] >= limit.range_req[2]

\* RateLimit.__init__: TRUE when construction raises ValueError.
RateLimitInvalid(limit) ==
    \/ limit.max_req <= 0
    \/ limit.rate_limit_per_route /\ limit.get_route_path = None
    \/ /\ limit.range_req # None
       /\ \/ limit.range_req[1] >= limit.range_req[2]
          \/ limit.range_req[1] <= 0

\* The seconds of one `per` unit, as the branches of
\* seconds_between_requests spell them (2.628e6, 3.154e7 for month, year).
UnitSeconds(per) ==
    CASE per = "SECOND" -> 1
      [] per = "MINUTE" -> 60
      [] per = "HOUR"   -> 3600
      [] per = "DAY"    -> 86400
      [] per = "WEEK"   -> 604800
      [] per = "MONTH"  -> 2628000
      [] per = "YEAR"   -> 31540000

\* The values random.randint(a, b) can return for the settings: the fresh
\* draw of _max of one acquisition (max_req itself without range_req).
MaxDraws(limit) ==
    IF limit.range_req # None
    THEN limit.range_req[1] .. limit.range_req[2]
    ELSE {limit.max_req}

\* A wrong interval: the quotient upside down, _max / (unit * per_multiplier).
seconds_between_requests_Inverted(limit, max) ==
    IF limit.per \in DatePart
    THEN max \div (UnitSeconds(limit.per) * limit.per_multiplier * TicksPerSecond)
    ELSE 0

\* RateLimiter.seconds_between_requests, in ticks, for the drawn _max:
\* 1.0 / (_max / (unit * per_multiplier)).  The settings of the model make
\* the quotient a whole number of ticks.
seconds_between_requests(limit, max) ==
    IF limit.per \in DatePart
    THEN (UnitSeconds(limit.per) * limit.per_multiplier * TicksPerSecond) \div max
    ELSE 0

(***************************************************************************)
(* ExponentialBackoff (src/simplescraper.py 90-115).  Scraper.request      *)
(* builds one with the default arguments for every call that misses the    *)
(* cache.                                                                  *)
(***************************************************************************)
initial_backoff == 2
exponent == 2
max_backoffs == 3

\* What one step of a coroutine does next: it returns a value (storing it
\* in the response cache or not), raises an exception, or sleeps.
\* in_try: the sleep is awaited inside the try block of do_req.
Return(value, store) ==
    [act |-> "return", exc |-> None, value |-> value, store |-> store, in_try |-> FALSE]
Raise(exc, reason) ==
    [act |-> "raise", exc |-> exc, value |-> reason, store |-> FALSE, in_try |-> FALSE]
Sleep(reason) ==
    [act |-> "sleep", exc |-> None, value |-> reason, store |-> FALSE, in_try |-> FALSE]

\* A wrong cap: the comparison without the + 1, one sleep too many.
backoff_OffByOne(n, reason) ==
    IF n > max_backoffs
    THEN Raise("ResponseNotOkError", reason)
    ELSE Sleep(reason)

\* ExponentialBackoff.backoff up to its await, with _backoffs = n: raise
\* ResponseNotOkError(reason) or sleep.
backoff(n, reason) ==
    IF n + 1 > max_backoffs
    THEN Raise("ResponseNotOkError", reason)
    ELSE Sleep(reason)

(***************************************************************************)
(* Requests and the transport's outcomes.                                  *)
(***************************************************************************)
\* Optional params: a dict, as the sequence of its <<key, value>> items in
\* insertion order, or None.
NoParams == [given |-> FALSE, items |-> << >>]
Params(items) == [given |-> TRUE, items |-> items]

\* str(url): a URL is a record of its netloc and its path.
UrlStr(url) == "//" \o url.netloc \o url.path

RECURSIVE JoinValues(_)
\* ",".join([str(v) for v in params.values()])
JoinValues(items) ==
    IF items = << >> THEN ""
    ELSE IF Len(items) = 1 THEN items[1][2]
    ELSE items[1][2] \o "," \o JoinValues(Tail(items))

\* Scraper._hash_request: the hash of the concatenated text.  hash() is
\* taken to be injective on the texts of the model, so a fingerprint is the
\* text itself.
hash_request(url, params, data, json_body) ==
    UrlStr(url)
      \o (IF params.given THEN JoinValues(params.items) ELSE "")
      \o (IF data # None THEN data ELSE "")
      \o (IF json_body # None THEN json_body ELSE "")

\* The exception types do_req's handler retries whatever the caller says
\* (exact types: the test is `type(exc) in (...)`).
RecognisedErrors ==
    {"ClientError", "ClientOSError", "ClientConnectionError", "ClientPayloadError",
     "ClientConnectorError", "ServerDisconnectedError", "TimeoutError", "ConnectionError"}

\* A wrong handler: every exception is retried.
except_RetriesAll(rq, n, exc, reason) == backoff(n, exc)

\* The `except Exception` handler of do_req for an exception raised inside
\* its try block, with _backoffs = n.  A ResponseNotOkError raised by the
\* backoff call of the handler leaves do_req.
except(rq, n, exc, reason) ==
    IF exc \in RecognisedErrors \/ exc \in rq.retry_errors
    THEN backoff(n, exc)
    ELSE Raise(exc, reason)

\* backoff called inside the try block: its ResponseNotOkError is caught by
\* the handler of the same do_req.
backoff_in_try(rq, n, reason) ==
    LET b == backoff(n, reason)
    IN  IF b.act = "raise"
        THEN except(rq, n, b.exc, b.value)
        ELSE [b EXCEPT !.in_try = TRUE]

\* `await res.json() if json else await res.text()` of aiohttp for a body:
\* json() gives None for an empty body and for the document null, raises
\* ContentTypeError for a body that is no JSON document.
Decode(json, body) ==
    IF ~json THEN [ok |-> TRUE, value |-> body]
    ELSE IF body = "<html>" THEN [ok |-> FALSE, value |-> "ContentTypeError"]
    ELSE IF body = "" \/ body = "null" THEN [ok |-> TRUE, value |-> None]
    ELSE [ok |-> TRUE, value |-> body]

Response(status, body) == [kind |-> "response", status |-> status, body |-> body, exc |-> None]
Failure(exc) == [kind |-> "error", status |-> 0, body |-> "", exc |-> exc]

\* One run of do_req from the transport's outcome o to its next await or
\* its end, for request rq under _backoffs = n.
do_req(playwright, stop, rq, n, o) ==
    IF o.kind = "error" THEN except(rq, n, o.exc, o.exc)
    ELSE IF playwright THEN Return(o.body, FALSE)
    ELSE IF o.status # 200
    THEN IF o.status \in stop
         THEN except(rq, n, "ImmediatelyStopStatusError", ToString(o.status))
         ELSE backoff_in_try(rq, n, IF o.body # "" THEN o.body ELSE ToString(o.status))
    ELSE LET d == Decode(rq.json, o.body)
         IN  IF ~d.ok THEN except(rq, n, d.value, d.value)
             ELSE IF d.value = None THEN backoff_in_try(rq, n, "Empty response")
             ELSE Return(d.value, TRUE)

\* An exception that leaves a do_req run from `return await do_req()` of
\* lines 349 or 353 is raised inside the try block of the caller's do_req,
\* whose handler sees it in turn (nested: some enclosing do_req awaits
\* this one there).
unwind(rq, n, nested, eff) ==
    IF eff.act = "raise" /\ nested
    THEN except(rq, n, eff.exc, eff.value)
    ELSE eff

\* The caller's view of a finished chain.
Outcome(eff) ==
    IF eff.act = "return" THEN [kind |-> "Success", value |-> eff.value]
    ELSE IF eff.exc = "ImmediatelyStopStatusError" THEN [kind |-> "ImmediateStop", value |-> eff.value]
    ELSE IF eff.exc = "ResponseNotOkError" THEN [kind |-> "BackoffExhausted", value |-> eff.value]
    ELSE [kind |-> "Error", value |-> eff.exc]

(***************************************************************************)
(* RateLimiter (src/simplescraper.py 118-184).                             *)
(***************************************************************************)
\* A caller-supplied get_route_path: the route of a URL is its netloc and
\* path.
get_route_path(url) == url.netloc \o url.path

\* A wrong key: one key for every URL.
KeyOf_Global(limit, url) == "global"

\* The key of RateLimiter.request (lines 163-167).
KeyOf(limit, url) ==
    IF ~limit.rate_limit_per_route THEN url.netloc ELSE get_route_path(url)

\* No last call, no value: the absence of a timestamp.
NoStamp == -1

\* A wrong next call: the jitter without the interval.
next_call_NoInterval(calls, limit, key, utcnow, max, jitter) ==
    IF key \notin DOMAIN calls
    THEN utcnow
    ELSE calls[key] + jitter

\* RateLimiter.next_call(key, now) over the map calls, with the _max and
\* the random.random() jitter (in ticks) this evaluation draws.
next_call(calls, limit, key, utcnow, max, jitter) ==
    IF key \notin DOMAIN calls
    THEN utcnow
    ELSE calls[key] + seconds_between_requests(limit, max) + jitter

\* A wrong cache check: no_cache ignored.
CacheHit_IgnoresNoCache(cache, req_hash, no_cache) == req_hash \in DOMAIN cache

\* A wrong cache check: the flag upside down.
CacheHit_Inverted(cache, req_hash, no_cache) == req_hash \in DOMAIN cache /\ no_cache

\* Line 305: the request is served from the response cache.
CacheHit(cache, req_hash, no_cache) == req_hash \in DOMAIN cache /\ ~no_cache

\* d[k] = v.
Put(d, k, v) == [x \in DOMAIN d \cup {k} |-> IF x = k THEN v ELSE d[x]]
EmptyDict == [x \in {} |-> 0]

(***************************************************************************)
(* Headers (src/simplescraper.py 188, 218-226, 245-271, 309-317).  A set   *)
(* of headers is a function from header names to values; an optional one   *)
(* is a record that says whether it is given.                              *)
(***************************************************************************)
SPOOF_HEADER_LIFETIME_MINUTES == 60

\* timedelta(minutes=SPOOF_HEADER_LIFETIME_MINUTES), in ticks.
Lifetime == SPOOF_HEADER_LIFETIME_MINUTES * 60 * TicksPerSecond

NoHeaders == [given |-> FALSE, dict |-> EmptyDict]
SomeHeaders(dict) == [given |-> TRUE, dict |-> dict]

\* {**a, **b}, and a.update(b): the items of a, overridden by those of b.
Merge(a, b) == [k \in DOMAIN a \cup DOMAIN b |-> IF k \in DOMAIN b THEN b[k] ELSE a[k]]

\* Scraper.__init__, lines 218-221: the default headers of a user_agent
\* (None for none).
DefaultHeaders(user_agent) ==
    IF user_agent # None THEN [k \in {"User-Agent"} |-> user_agent] ELSE EmptyDict

\* The User-Agent values Headers().generate() draws from.
Agents == {"Mozilla/5.0 (X11)", "Mozilla/5.0 (Windows)"}

\* The candidates of the Referer: one of the fixed sites, and the URL's
\* own origin and path.
Referers(url) == {"https://www.google.com/", UrlStr(url)}

\* The profiles lines 247-262 can build for a URL: a generated User-Agent,
\* a Referer from the candidates, and the fixed Accept values.
Profiles(url) ==
    {[k \in {"User-Agent", "Referer", "Accept-Encoding", "Accept-Language", "Accept"} |->
         CASE k = "User-Agent" -> ua
           [] k = "Referer" -> referer
           [] k = "Accept-Encoding" -> "gzip, deflate, br"
           [] k = "Accept-Language" -> "en-US,en;q=0.9,ja;q=0.8"
           [] k = "Accept" -> "text/html,application/xhtml+xml"] :
        ua \in Agents, referer \in Referers(url)}

\* A wrong expiry: a new profile for every call.
Expired_Always(cached, next, utcnow) == TRUE

\* Line 246: _get_headers builds a new profile.
Expired(cached, next, utcnow) == ~cached.given \/ utcnow > next

\* Lines 309-317: the headers of a request from the explicit headers of
\* the call, the default headers and, with spoofing, the profile
\* _get_headers returns.
resolve_headers(explicit, default, spoof, profile) ==
    IF ~explicit.given
    THEN IF ~spoof THEN default ELSE profile
    ELSE IF spoof
         THEN Merge(Merge(default, explicit.dict), profile)
         ELSE explicit.dict

(***************************************************************************)
(* State.                                                                  *)
(***************************************************************************)
VARIABLES
    now,                        \* datetime.now(UTC), in ticks
    constructed,                \* RateLimit(...): "pending", "ok" or "ValueError"
    settings,                   \* RateLimiter.settings
    use_playwright,             \* Scraper.use_playwright
    immediately_stop_statuses,  \* Scraper.__immediately_stop_statuses
    spoof_headers,              \* Scraper.__spoof_headers
    default_headers,            \* Scraper.__default_headers
    cached_headers,             \* Scraper.__cached_headers
    next_headers,               \* Scraper.__next_headers
    headers,                    \* the headers do_req of the task sends
    regenerations,              \* history: profiles _get_headers has built
    last_calls,                 \* RateLimiter._last_calls
    cached_responses,           \* Scraper.__cached_responses
    pc,                         \* where each task is suspended
    req,                        \* the arguments of the task's request call
    utcnow,                     \* utcnow of RateLimiter.request while it sleeps
    wake,                       \* next_call of RateLimiter.request while it sleeps
    backoffs,                   \* backoff._backoffs of the task's chain
    backoff_seconds,            \* backoff.backoff_seconds of the task's chain
    nested,                     \* some do_req of the chain awaits inside its try
    result,                     \* what the task's last call returned or raised
    basis,                      \* history: the last-call stamp the task read
    prev_stamp,                 \* history: the stamp the task's grant replaced
    stamp,                      \* history: the stamp the task's grant wrote
    dispatches,                 \* history: transport calls of the task's chain
    sleeps,                     \* history: backoff sleeps of the task's chain
    response,                   \* history: the outcome the task's do_req saw last
    stored_by                   \* history: the request that stored each cache entry

config == <<constructed, settings, use_playwright, immediately_stop_statuses,
            spoof_headers, default_headers>>
identity == <<cached_headers, next_headers, regenerations>>
cache == <<cached_responses, stored_by>>
chain == <<backoffs, backoff_seconds, nested>>
gate_history == <<basis, prev_stamp, stamp>>
vars == <<now, constructed, settings, use_playwright, immediately_stop_statuses,
          spoof_headers, default_headers, cached_headers, next_headers, headers,
          regenerations, last_calls,
          cached_responses, pc, req, utcnow, wake, backoffs, backoff_seconds, nested,
          result, basis, prev_stamp, stamp, dispatches, sleeps, response, stored_by>>

NoResult == [kind |-> "None", value |-> None]
NoRequest == [url |-> [netloc |-> "", path |-> ""], params |-> NoParams, data |-> None,
              json_body |-> None, no_cache |-> FALSE, json |-> TRUE, retry_errors |-> {},
              headers |-> NoHeaders]
NoResponse == [kind |-> "None", status |-> 0, body |-> "", exc |-> None]

\* What RateLimiter.__init__ and Scraper.__init__ leave: no last call,
\* nothing cached, no profile (and __next_headers the time of
\* construction), no task.
Fresh ==
    /\ now = 0
    /\ cached_headers = NoHeaders
    /\ next_headers = 0
    /\ regenerations = 0
    /\ headers = [t \in Tasks |-> EmptyDict]
    /\ last_calls = EmptyDict
    /\ cached_responses = EmptyDict
    /\ stored_by = EmptyDict
    /\ pc = [t \in Tasks |-> "idle"]
    /\ req = [t \in Tasks |-> NoRequest]
    /\ utcnow = [t \in Tasks |-> NoStamp]
    /\ wake = [t \in Tasks |-> NoStamp]
    /\ backoffs = [t \in Tasks |-> 0]
    /\ backoff_seconds = [t \in Tasks |-> initial_backoff]
    /\ nested = [t \in Tasks |-> FALSE]
    /\ result = [t \in Tasks |-> NoResult]
    /\ basis = [t \in Tasks |-> NoStamp]
    /\ prev_stamp = [t \in Tasks |-> NoStamp]
    /\ stamp = [t \in Tasks |-> NoStamp]
    /\ dispatches = [t \in Tasks |-> 0]
    /\ sleeps = [t \in Tasks |-> 0]
    /\ response = [t \in Tasks |-> NoResponse]

\* After Scraper(limit, immediately_stop_statuses=stop, use_playwright=pw)
\* for a limit RateLimit accepts, without spoofing and without user_agent.
InitOver(Limits, Playwrights, Stops) ==
    /\ settings \in {l \in Limits : ~RateLimitInvalid(l)}
    /\ constructed = "ok"
    /\ use_playwright \in Playwrights
    /\ immediately_stop_statuses \in Stops
    /\ spoof_headers = FALSE
    /\ default_headers = DefaultHeaders(None)
    /\ Fresh

(***************************************************************************)
(* Actions.                                                                *)
(***************************************************************************)
\* The clock advances.
Tick ==
    /\ now < MaxTime
    /\ now' = now + 1
    /\ UNCHANGED <<config, identity, headers, last_calls, cache, pc, req, utcnow, wake,
                   chain, result, gate_history, dispatches, sleeps, response>>

\* Nothing runs for d ticks.
Elapse(d) ==
    /\ now + d <= MaxLifetimes * Lifetime + MaxTime
    /\ now' = now + d
    /\ UNCHANGED <<config, identity, headers, last_calls, cache, pc, req, utcnow, wake,
                   chain, result, gate_history, dispatches, sleeps, response>>

\* RateLimit(...) with the arguments of settings runs: it raises ValueError
\* or gives the settings of a RateLimiter.
Construct ==
    /\ constructed = "pending"
    /\ constructed' = IF RateLimitInvalid(settings) THEN "ValueError" ELSE "ok"
    /\ UNCHANGED <<now, settings, use_playwright, immediately_stop_statuses,
                   spoof_headers, default_headers, identity, headers, last_calls, cache,
                   pc, req, utcnow, wake, chain, result, gate_history, dispatches,
                   sleeps, response>>

\* The gate opens for task t on key (line 183) and do_req starts (line
\* 184): the stamp, and the first call of the transport.
Grant(t, key) ==
    /\ last_calls' = Put(last_calls, key, now)
    /\ prev_stamp' = [prev_stamp EXCEPT ![t] =
                         IF key \in DOMAIN last_calls THEN last_calls[key] ELSE NoStamp]
    /\ stamp' = [stamp EXCEPT ![t] = now]
    /\ pc' = [pc EXCEPT ![t] = "dispatch"]
    /\ dispatches' = [dispatches EXCEPT ![t] = 1]
    /\ utcnow' = [utcnow EXCEPT ![t] = NoStamp]
    /\ wake' = [wake EXCEPT ![t] = NoStamp]

\* Task t calls Scraper.request(r): lines 303-319 and 377, then
\* RateLimiter.request up to its first await (the throttling sleep of line
\* 181, or the transport's I/O inside do_req).  max and jitter are the
\* random draws of next_call.  A sleep that would end after MaxTime is not
\* started.
Request(t, r, max, jitter) ==
    /\ pc[t] \in {"idle", "done"}
    /\ req' = [req EXCEPT ![t] = r]
    /\ backoffs' = [backoffs EXCEPT ![t] = 0]
    /\ backoff_seconds' = [backoff_seconds EXCEPT ![t] = initial_backoff]
    /\ nested' = [nested EXCEPT ![t] = FALSE]
    /\ sleeps' = [sleeps EXCEPT ![t] = 0]
    /\ response' = [response EXCEPT ![t] = NoResponse]
    /\ LET req_hash == hash_request(r.url, r.params, r.data, r.json_body)
           key == KeyOf(settings, r.url)
           nc == next_call(last_calls, settings, key, now, max, jitter)
       IN  IF CacheHit(cached_responses, req_hash, r.no_cache)
           THEN /\ pc' = [pc EXCEPT ![t] = "done"]
                /\ result' = [result EXCEPT ![t] =
                                 [kind |-> "Success", value |-> cached_responses[req_hash]]]
                /\ dispatches' = [dispatches EXCEPT ![t] = 0]
                /\ headers' = [headers EXCEPT ![t] = EmptyDict]
                /\ UNCHANGED <<identity, last_calls, utcnow, wake, gate_history>>
           ELSE /\ result' = [result EXCEPT ![t] = NoResult]
                /\ LET refresh == spoof_headers
                                        /\ Expired(cached_headers, next_headers, now)
                   IN  \E profile \in IF refresh THEN Profiles(r.url)
                                                 ELSE {cached_headers.dict} :
                           /\ cached_headers' =
                                  IF refresh THEN SomeHeaders(profile) ELSE cached_headers
                           /\ next_headers' =
                                  IF refresh THEN now + Lifetime ELSE next_headers
                           /\ regenerations' =
                                  IF refresh THEN regenerations + 1 ELSE regenerations
                           /\ headers' = [headers EXCEPT ![t] =
                                             resolve_headers(r.headers, default_headers,
                                                             spoof_headers, profile)]
                /\ basis' = [basis EXCEPT ![t] =
                                IF key \in DOMAIN last_calls THEN last_calls[key] ELSE NoStamp]
                /\ IF nc > now
                   THEN /\ nc <= MaxTime
                        /\ pc' = [pc EXCEPT ![t] = "throttle"]
                        /\ utcnow' = [utcnow EXCEPT ![t] = now]
                        /\ wake' = [wake EXCEPT ![t] = nc]
                        /\ dispatches' = [dispatches EXCEPT ![t] = 0]
                        /\ UNCHANGED <<last_calls, prev_stamp, stamp>>
                   ELSE Grant(t, key)
    /\ UNCHANGED <<now, config, cache>>

\* The throttling sleep of task t ends (asyncio.sleep returns no earlier
\* than asked): lines 183-184.
ThrottleWake(t) ==
    /\ pc[t] = "throttle"
    /\ now >= wake[t]
    /\ Grant(t, KeyOf(settings, req[t].url))
    /\ UNCHANGED <<now, config, identity, headers, cache, req, chain, result, basis,
                   sleeps, response>>

\* The history of a grant is kept while the granted task awaits its first
\* transport call.
NoGate(f, t) == [f EXCEPT ![t] = NoStamp]

\* The transport of task t ends with outcome o and do_req runs to its next
\* await or to its end (lines 322-375).
Respond(t, o) ==
    /\ pc[t] = "dispatch"
    /\ response' = [response EXCEPT ![t] = o]
    /\ LET eff == unwind(req[t], backoffs[t], nested[t],
                         do_req(use_playwright, immediately_stop_statuses,
                                req[t], backoffs[t], o))
           r == req[t]
           req_hash == hash_request(r.url, r.params, r.data, r.json_body)
       IN  IF eff.act = "sleep"
           THEN /\ pc' = [pc EXCEPT ![t] = "backoff"]
                /\ sleeps' = [sleeps EXCEPT ![t] = @ + 1]
                /\ nested' = [nested EXCEPT ![t] = @ \/ eff.in_try]
                /\ UNCHANGED <<result, cache>>
           ELSE /\ pc' = [pc EXCEPT ![t] = "done"]
                /\ result' = [result EXCEPT ![t] = Outcome(eff)]
                /\ cached_responses' =
                       IF eff.store
                       THEN Put(cached_responses, req_hash, eff.value)
                       ELSE cached_responses
                /\ stored_by' = IF eff.store THEN Put(stored_by, req_hash, r) ELSE stored_by
                /\ UNCHANGED <<sleeps, nested>>
    /\ basis' = NoGate(basis, t)
    /\ prev_stamp' = NoGate(prev_stamp, t)
    /\ stamp' = NoGate(stamp, t)
    /\ UNCHANGED <<now, config, identity, headers, last_calls, req, utcnow, wake,
                   backoffs, backoff_seconds, dispatches>>

\* A wrong backoff: the sleep ends and the retry starts, but the policy
\* forgets it, neither growing the delay nor counting the backoff.
BackoffWake_Forgets(t) ==
    /\ pc[t] = "backoff"
    /\ pc' = [pc EXCEPT ![t] = "dispatch"]
    /\ dispatches' = [dispatches EXCEPT ![t] = @ + 1]
    /\ UNCHANGED <<now, config, identity, headers, last_calls, cache, req, utcnow, wake,
                   chain, result, gate_history, sleeps, response>>

\* A wrong retry: it stamps the key again, as a pass of the gate does.
BackoffWake_Restamps(t) ==
    /\ pc[t] = "backoff"
    /\ backoff_seconds' = [backoff_seconds EXCEPT ![t] = @ ^ exponent]
    /\ backoffs' = [backoffs EXCEPT ![t] = @ + 1]
    /\ pc' = [pc EXCEPT ![t] = "dispatch"]
    /\ dispatches' = [dispatches EXCEPT ![t] = @ + 1]
    /\ last_calls' = Put(last_calls, KeyOf(settings, req[t].url), now)
    /\ UNCHANGED <<now, config, identity, headers, cache, req, utcnow, wake, nested,
                   result, gate_history, sleeps, response>>

\* The sleep of ExponentialBackoff.backoff ends for task t (lines 114-115)
\* and the caller runs `return await do_req()`: the next transport call.
\* The sleep lasts backoff_seconds + random.random() seconds; the model
\* lets it end at any later step.
BackoffWake(t) ==
    /\ pc[t] = "backoff"
    /\ backoff_seconds' = [backoff_seconds EXCEPT ![t] = @ ^ exponent]
    /\ backoffs' = [backoffs EXCEPT ![t] = @ + 1]
    /\ pc' = [pc EXCEPT ![t] = "dispatch"]
    /\ dispatches' = [dispatches EXCEPT ![t] = @ + 1]
    /\ UNCHANGED <<now, config, identity, headers, last_calls, cache, req, utcnow, wake,
                   nested, result, gate_history, sleeps, response>>

\* The steps of the tasks TS calling with requests RS against a transport
\* that answers with outcomes OS.
NextOver(TS, RS, OS) ==
    \/ Tick
    \/ \E t \in TS, r \in RS, max \in MaxDraws(settings), jitter \in 0 .. TicksPerSecond - 1 :
           Request(t, r, max, jitter)
    \/ \E t \in TS : ThrottleWake(t)
    \/ \E t \in TS, o \in OS : Respond(t, o)
    \/ \E t \in TS : BackoffWake(t)

(***************************************************************************)
(* Specifications.                                                         *)
(***************************************************************************)
Limit(max_req, per, per_route, route, range_req, per_multiplier) ==
    [max_req |-> max_req, per |-> per, rate_limit_per_route |-> per_route,
     get_route_path |-> route, range_req |-> range_req, per_multiplier |-> per_multiplier]

Call(url, params, data, json_body, no_cache, json, retry_errors) ==
    [url |-> url, params |-> params, data |-> data, json_body |-> json_body,
     no_cache |-> no_cache, json |-> json, retry_errors |-> retry_errors,
     headers |-> NoHeaders]

\* The call with explicit headers.
WithHeaders(call, dict) == [call EXCEPT !.headers = SomeHeaders(dict)]

UA1 == [netloc |-> "a", path |-> "/1"]
UA2 == [netloc |-> "a", path |-> "/2"]
UB  == [netloc |-> "b", path |-> "/"]

Get(url) == Call(url, NoParams, None, None, FALSE, TRUE, {})

\* Two tasks against the gate: calls on two hosts, a transport that
\* answers 200 with a document or 500.
GateLimits ==
    {Limit(1, "SECOND", FALSE, None, None, 1),
     Limit(1, "SECOND", FALSE, None, <<1, 2>>, 2)}
GateCalls == {Get(UA1), Get(UB)}
GateOutcomes == {Response(200, "v"), Response(500, "")}

Init == InitOver(GateLimits, {FALSE}, {{403}})
Next == NextOver(Tasks, GateCalls, GateOutcomes)
Spec == Init /\ [][Next]_vars

\* One task and its retry chain: every kind of outcome, both transports,
\* caller-supplied retry_errors, JSON and text mode, per-route keys.
ChainLimits ==
    {Limit(60, "MINUTE", FALSE, None, None, 1),
     Limit(1, "SECOND", TRUE, "get_route_path", None, 1),
     Limit(1, "SECOND", TRUE, None, None, 1)}
ChainCalls ==
    {Call(UA1, NoParams, None, None, FALSE, json, retry_errors) :
        json \in BOOLEAN,
        retry_errors \in {{}, {"CustomError"}, {"ImmediatelyStopStatusError"},
                          {"ResponseNotOkError"}}}
ChainOutcomes ==
    {Response(200, "v"), Response(200, ""), Response(200, "null"), Response(200, "<html>"),
     Response(201, "v"), Response(500, ""), Response(500, "oops"), Response(403, ""),
     Failure("ClientConnectionError"), Failure("TimeoutError"), Failure("CustomError"),
     Failure("ValueError")}

InitChain == InitOver(ChainLimits, BOOLEAN, {{403}})
NextChain == NextOver({"t1"}, ChainCalls, ChainOutcomes)
SpecChain == InitChain /\ [][NextChain]_vars

\* The event loop runs every task that can run, the clock advances, and the
\* transport ends every call (with a response, an error or its timeout).
FairSpecChain ==
    /\ SpecChain
    /\ WF_vars(Tick)
    /\ WF_vars(ThrottleWake("t1"))
    /\ WF_vars(\E o \in ChainOutcomes : Respond("t1", o))
    /\ WF_vars(BackoffWake("t1"))

\* One task and the response cache: calls on one URL that differ in
\* params, data, json_body and no_cache, both transports.
CacheLimits == {Limit(1, "SECOND", FALSE, None, None, 1)}
CacheArgs ==
    {<<NoParams, None, None>>,
     <<Params(<< <<"q", "x">> >>), None, None>>,
     <<NoParams, "x", None>>,
     <<NoParams, None, "x">>,
     <<Params(<< <<"q", "x">> >>), "x", None>>}
CacheCalls ==
    {Call(UA1, a[1], a[2], a[3], no_cache, TRUE, {}) :
        a \in CacheArgs, no_cache \in BOOLEAN}
CacheOutcomes == {Response(200, "v"), Response(200, "w"), Response(500, "")}

InitCache == InitOver(CacheLimits, BOOLEAN, {{403}})
NextCache == NextOver({"t1"}, CacheCalls, CacheOutcomes)
SpecCache == InitCache /\ [][NextCache]_vars

\* One task and the header profile: calls with and without explicit
\* headers, with and without spoofing and a user_agent, over a clock that
\* passes the lifetime of a profile.  (The limiter sleeps only within the
\* first MaxTime ticks.)
HeaderLimits == {Limit(1, "SECOND", FALSE, None, None, 1)}
HeaderCalls ==
    LET call == Call(UA1, NoParams, None, None, TRUE, TRUE, {})
    IN  {call,
         WithHeaders(call, [k \in {"Accept"} |-> "application/json"]),
         WithHeaders(call, [k \in {"User-Agent"} |-> "curl/8"])}
HeaderOutcomes == {Response(200, "v"), Response(500, "")}

InitHeaders ==
    /\ settings \in {l \in HeaderLimits : ~RateLimitInvalid(l)}
    /\ constructed = "ok"
    /\ use_playwright = FALSE
    /\ immediately_stop_statuses = {403}
    /\ spoof_headers \in BOOLEAN
    /\ default_headers \in {DefaultHeaders(None), DefaultHeaders("bot/1.0")}
    /\ Fresh
NextHeaders ==
    \/ \E d \in {Lifetime - 1, Lifetime} : Elapse(d)
    \/ NextOver({"t1"}, HeaderCalls, HeaderOutcomes)
SpecHeaders == InitHeaders /\ [][NextHeaders]_vars

\* The construction of the RateLimit, from valid and invalid arguments, and
\* one task on the limiter of a valid one.
ConfigRoutes == {<<FALSE, None>>, <<TRUE, None>>, <<TRUE, "get_route_path">>}
ConfigRanges == <<None, <<1, 2>>, <<2, 2>>, <<2, 1>>, <<0, 1>>, <<0, 0>>>>

InitConfig ==
    /\ \E max_req \in {0, 1}, route \in ConfigRoutes, i \in DOMAIN ConfigRanges :
           settings = Limit(max_req, "SECOND", route[1], route[2], ConfigRanges[i], 2)
    /\ constructed = "pending"
    /\ use_playwright = FALSE
    /\ immediately_stop_statuses = {403}
    /\ spoof_headers = FALSE
    /\ default_headers = DefaultHeaders(None)
    /\ Fresh
NextConfig ==
    \/ Construct
    \/ constructed = "ok" /\ NextOver({"t1"}, GateCalls, GateOutcomes)
SpecConfig == InitConfig /\ [][NextConfig]_vars

(***************************************************************************)
(* The rate-limit gate.                                                    *)
(***************************************************************************)
\* The interval the settings configure, unit_seconds * per_multiplier /
\* max_req, in ticks.
ConfiguredInterval ==
    (UnitSeconds(settings.per) * settings.per_multiplier * TicksPerSecond)
        \div settings.max_req

\* The shortest and the longest interval an acquisition can draw: the one
\* of max_req without range_req, the ones of the ends of range_req with it.
MinInterval ==
    (UnitSeconds(settings.per) * settings.per_multiplier * TicksPerSecond)
        \div (IF settings.range_req # None THEN settings.range_req[2] ELSE settings.max_req)
MaxInterval ==
    (UnitSeconds(settings.per) * settings.per_multiplier * TicksPerSecond)
        \div (IF settings.range_req # None THEN settings.range_req[1] ELSE settings.max_req)

\* The rate-limit key of a URL as section 4.1 states it.
ClaimKey(url) ==
    IF settings.rate_limit_per_route THEN url.netloc \o url.path ELSE url.netloc

\* Task t has just been granted its slot on a key with an earlier grant.
Regranted(t) == stamp[t] # NoStamp /\ prev_stamp[t] # NoStamp

\* ... and the earlier grant is the one t read when it arrived: no other
\* grant on the key came between the arrival and the grant of t.
Sequential(t) == Regranted(t) /\ basis[t] = prev_stamp[t]

\* Task t has passed the gate and its chain has not ended.
InFlight(t) == pc[t] \in {"dispatch", "backoff"}

\* C1 as stated: the stamps of two consecutive grants of sequential
\* acquisitions on a key are at least unit_seconds * per_multiplier /
\* max_req apart.
C1_SeparatedByConfiguredInterval ==
    \A t \in Tasks : Sequential(t) => stamp[t] - prev_stamp[t] >= ConfiguredInterval

\* C1, amended: the stamps of two consecutive grants of sequential
\* acquisitions on a key are at least the interval of the largest _max the
\* settings can draw apart (max_req without range_req, the upper end of
\* range_req with it).
C1_SeparatedByMinInterval ==
    \A t \in Tasks : Sequential(t) => stamp[t] - prev_stamp[t] >= MinInterval

\* Sequential acquisitions on one key, the second granted an interval after
\* the first, under max_req=1 per SECOND and under a range_req.
C1_Witness ==
    \E t \in Tasks :
        /\ Sequential(t)
        /\ stamp[t] - prev_stamp[t] >= MinInterval
        /\ stamp[t] - prev_stamp[t] <= MinInterval + TicksPerSecond - 1

\* C2: under every interleaving of concurrent requests on one key, any two
\* consecutive grants on the key are at least the interval apart, and no
\* two requests pass the gate on the basis of the same last-call stamp.
C2_ConcurrentGrantsSerialized ==
    /\ \A t \in Tasks : Regranted(t) => stamp[t] - prev_stamp[t] >= MinInterval
    /\ \A t1, t2 \in Tasks :
           /\ t1 # t2
           /\ stamp[t1] # NoStamp /\ stamp[t2] # NoStamp
           /\ ClaimKey(req[t1].url) = ClaimKey(req[t2].url)
           => ~(basis[t1] # NoStamp /\ basis[t1] = basis[t2])

\* C3 as stated: at most one request per key is in flight.
C3_AtMostOneInFlight ==
    \A t1, t2 \in Tasks :
        InFlight(t1) /\ InFlight(t2) /\ ClaimKey(req[t1].url) = ClaimKey(req[t2].url)
        => t1 = t2

\* C3, amended: every request that passes the gate on a seen key does so at
\* least the interval after the last-call stamp it read on arrival, whether
\* or not an earlier request on the key is still in flight.
C3_GrantedAfterBasis ==
    \A t \in Tasks :
        stamp[t] # NoStamp /\ basis[t] # NoStamp => stamp[t] >= basis[t] + MinInterval

\* Two requests on one key in flight together, the later one granted an
\* interval after the stamp it read.
C3_Witness ==
    \E t1, t2 \in Tasks :
        /\ t1 # t2
        /\ InFlight(t1) /\ InFlight(t2)
        /\ ClaimKey(req[t1].url) = ClaimKey(req[t2].url)
        /\ basis[t2] # NoStamp /\ stamp[t2] >= basis[t2] + MinInterval

\* Task t starts a request that misses the cache; task t is granted.
Starts(t) == pc[t] \in {"idle", "done"} /\ pc'[t] \in {"throttle", "dispatch"}
Passes(t) == pc[t] \in {"idle", "done", "throttle"} /\ pc'[t] = "dispatch"

\* C4: the grant of an acquisition on key B depends only on the last-call
\* stamp of B.  Whatever the other tasks do, a starting acquisition on an
\* unseen key, or on a key whose stamp is older than the longest interval
\* and jitter, is granted and dispatched in the same step; one on a key
\* stamped less than the shortest interval ago waits until that interval
\* has passed; and a grant changes the stamp of no other key.
C4_KeysIndependent ==
    [][\A t \in Tasks :
          LET B == ClaimKey(req'[t].url)
          IN  /\ Starts(t) /\ B \notin DOMAIN last_calls
                 => pc'[t] = "dispatch" /\ B \in DOMAIN last_calls' /\ last_calls'[B] = now
              /\ Starts(t) /\ B \in DOMAIN last_calls
                          /\ last_calls[B] + MaxInterval + TicksPerSecond - 1 <= now
                 => pc'[t] = "dispatch" /\ B \in DOMAIN last_calls' /\ last_calls'[B] = now
              /\ Starts(t) /\ B \in DOMAIN last_calls /\ last_calls[B] + MinInterval > now
                 => pc'[t] = "throttle" /\ wake'[t] >= last_calls[B] + MinInterval
                                        /\ last_calls' = last_calls
              /\ Passes(t)
                 => \A k \in DOMAIN last_calls \ {B} :
                        k \in DOMAIN last_calls' /\ last_calls'[k] = last_calls[k]
      ]_vars

\* A task granted on an unseen key strictly inside the rate-limit wait of a
\* task on another key.
C4_Witness ==
    \E t1, t2 \in Tasks :
        /\ pc[t1] = "throttle" /\ pc[t2] = "dispatch"
        /\ ClaimKey(req[t1].url) # ClaimKey(req[t2].url)
        /\ basis[t2] = NoStamp /\ prev_stamp[t2] = NoStamp
        /\ utcnow[t1] < stamp[t2] /\ stamp[t2] < wake[t1]

(***************************************************************************)
(* The backoff chain.                                                      *)
(***************************************************************************)
RECURSIVE DelayAfter(_)
\* The delay after k sleeps: 2, 4, 16, 256 for the defaults.
DelayAfter(k) == IF k = 0 THEN initial_backoff ELSE DelayAfter(k - 1) ^ exponent

Ended(t, kind) == pc[t] = "done" /\ result[t].kind = kind

\* C5: with max_backoffs = N, the first N backoff calls of a chain each
\* sleep, grow the delay and increment the counter, and the (N+1)-th
\* raises the exhaustion failure without sleeping and without changing the
\* delay or the counter: a chain sleeps only with fewer than N backoffs
\* behind it, its delay is the initial one grown once per completed sleep,
\* and it ends exhausted only after exactly N sleeps.
C5_BackoffCap ==
    \A t \in Tasks :
        /\ backoffs[t] <= max_backoffs
        /\ backoff_seconds[t] = DelayAfter(backoffs[t])
        /\ pc[t] = "backoff" => backoffs[t] < max_backoffs /\ sleeps[t] = backoffs[t] + 1
        /\ pc[t] \in {"dispatch", "done"} => sleeps[t] = backoffs[t]
        /\ Ended(t, "BackoffExhausted")
           => /\ backoffs[t] = max_backoffs
              /\ sleeps[t] = max_backoffs
              /\ dispatches[t] = max_backoffs + 1

\* A chain that ended exhausted at its 4th failure, after 3 sleeps.
C5_Witness ==
    \E t \in Tasks :
        /\ Ended(t, "BackoffExhausted")
        /\ sleeps[t] = max_backoffs
        /\ backoff_seconds[t] = DelayAfter(max_backoffs)

\* The counters of a chain stay within the cap, and a finished call ended
\* in one of the four ways.
C6_Bounded ==
    \A t \in Tasks :
        /\ sleeps[t] <= max_backoffs
        /\ dispatches[t] <= max_backoffs + 1
        /\ pc[t] = "done"
           => result[t].kind \in {"Success", "ImmediateStop", "BackoffExhausted", "Error"}

\* C6: every request chain terminates whatever the transport answers: it
\* performs at most max_backoffs backoff sleeps and max_backoffs + 1
\* transport calls, and ends in exactly one of Success, ImmediateStop,
\* BackoffExhausted or an unclassified error.
C6_ChainTerminates ==
    /\ []C6_Bounded
    /\ \A t \in {"t1"} :
           (pc[t] \in {"throttle", "dispatch", "backoff"}) ~> (pc[t] = "done")

\* A chain that used every attempt and ended otherwise than exhausted.
C6_Witness ==
    \E t \in Tasks :
        /\ pc[t] = "done"
        /\ result[t].kind \in {"Success", "ImmediateStop", "Error"}
        /\ dispatches[t] = max_backoffs + 1
        /\ sleeps[t] = max_backoffs

\* C7: on the direct transport, a response whose status is in the
\* immediate-stop set ends the chain at once with the immediate-stop
\* failure, whatever the request's retry_errors: no sleep and no further
\* transport call follow it.
C7_ImmediateStopEndsChain ==
    \A t \in Tasks :
        /\ ~use_playwright
        /\ response[t].kind = "response"
        /\ response[t].status \in immediately_stop_statuses
        => Ended(t, "ImmediateStop")

(***************************************************************************)
(* The response cache.                                                     *)
(***************************************************************************)
HashOf(r) == hash_request(r.url, r.params, r.data, r.json_body)

\* Task t is called: only a call changes what an idle or finished task
\* holds.
Called(t) ==
    /\ pc[t] \in {"idle", "done"}
    /\ <<pc[t], req[t], result[t], dispatches[t]>>
           # <<pc'[t], req'[t], result'[t], dispatches'[t]>>

\* The call of task t was served from the cache.
ServedFromCache(t) == Ended(t, "Success") /\ dispatches[t] = 0

\* C8: under either transport, a chain that ends in Success with value V
\* for a call with no_cache false leaves V cached under the call's
\* fingerprint, and a later call with a cached fingerprint and no_cache
\* false returns the cached value with no transport call.
C8_CacheRoundTrip ==
    [][\A t \in Tasks :
          /\ pc[t] = "dispatch" /\ pc'[t] = "done" /\ result'[t].kind = "Success"
                                /\ ~req[t].no_cache
             => /\ HashOf(req[t]) \in DOMAIN cached_responses'
                /\ cached_responses'[HashOf(req[t])] = result'[t].value
          /\ Called(t) /\ ~req'[t].no_cache /\ HashOf(req'[t]) \in DOMAIN cached_responses
             => /\ pc'[t] = "done"
                /\ result'[t] = [kind |-> "Success",
                                 value |-> cached_responses[HashOf(req'[t])]]
                /\ dispatches'[t] = 0
      ]_vars

\* C9: two calls that differ in params, data or json_body have different
\* fingerprints: a call is served from the cache only with the entry of a
\* call with the same params, data and json_body.
C9_DistinctFingerprints ==
    \A t \in Tasks :
        ServedFromCache(t) /\ HashOf(req[t]) \in DOMAIN stored_by
        => LET s == stored_by[HashOf(req[t])]
           IN  /\ s.params = req[t].params
               /\ s.data = req[t].data
               /\ s.json_body = req[t].json_body

\* C10: a call with no_cache true is never served from the cache, also
\* when its fingerprint is cached: it ends only after at least one
\* transport call.
C10_NoCacheDispatches ==
    \A t \in Tasks :
        req[t].no_cache
        => /\ ~ServedFromCache(t)
           /\ pc[t] = "done" => dispatches[t] >= 1

\* A repeated no_cache call in its transport call while the entry an
\* identical no_cache call stored is cached.
C10_Witness ==
    \E t \in Tasks :
        /\ pc[t] = "dispatch" /\ dispatches[t] = 1
        /\ req[t].no_cache
        /\ HashOf(req[t]) \in DOMAIN cached_responses
        /\ stored_by[HashOf(req[t])] = req[t]

\* C11: a call with no_cache true bypasses the store: while it runs and
\* when it ends, successfully or not, the response cache keeps exactly the
\* entries and the values it had.
C11_NoCacheBypassesStore ==
    [][\A t \in Tasks :
          req[t].no_cache /\ pc[t] \in {"throttle", "dispatch", "backoff"}
          => cached_responses' = cached_responses
      ]_vars

\* C12: a call with no_cache false whose fingerprint is cached returns the
\* cached value in the step of the call, past the rate limiter and the
\* transport: it does not sleep at the gate, whatever the next call of its
\* key, it leaves every last-call stamp as it is, and it calls no
\* transport.
C12_CacheHitSkipsGate ==
    [][\A t \in Tasks :
          Called(t) /\ ~req'[t].no_cache /\ HashOf(req'[t]) \in DOMAIN cached_responses
          => /\ pc'[t] = "done"
             /\ result'[t] = [kind |-> "Success",
                              value |-> cached_responses[HashOf(req'[t])]]
             /\ dispatches'[t] = 0
             /\ wake'[t] = wake[t] /\ utcnow'[t] = utcnow[t]
             /\ last_calls' = last_calls
             /\ cached_responses' = cached_responses
      ]_vars

\* A call served from the cache while the next call of its key is still in
\* the future: a call through the gate would sleep.
C12_Witness ==
    \E t \in Tasks :
        /\ ServedFromCache(t)
        /\ ~req[t].no_cache
        /\ ClaimKey(req[t].url) \in DOMAIN last_calls
        /\ last_calls[ClaimKey(req[t].url)] + MinInterval > now

(***************************************************************************)
(* Headers.                                                                *)
(***************************************************************************)
\* The headers h hold every header of profile, with its value.
Carries(h, profile) == \A k \in DOMAIN profile : k \in DOMAIN h /\ h[k] = profile[k]

\* Task t makes a call that misses the cache: the call resolves its
\* headers.
Misses(t) == Called(t) /\ pc'[t] \in {"throttle", "dispatch"}

\* C13: with spoofing, every call made while the current profile is within
\* its lifetime sends that profile and leaves it and its expiry as they
\* are; the first call made after the expiry (or with no profile yet)
\* builds one new profile, valid for a full lifetime from the call, and
\* sends it; nothing else builds or changes a profile.
C13_ProfileLifetime ==
    [][/\ \A t \in Tasks :
             Misses(t) /\ spoof_headers
             => IF cached_headers.given /\ now <= next_headers
                THEN /\ UNCHANGED <<cached_headers, next_headers, regenerations>>
                     /\ Carries(headers'[t], cached_headers.dict)
                ELSE /\ regenerations' = regenerations + 1
                     /\ cached_headers'.given
                     /\ next_headers' = now + Lifetime
                     /\ Carries(headers'[t], cached_headers'.dict)
       /\ (\A t \in Tasks : ~(Misses(t) /\ spoof_headers))
             => UNCHANGED <<cached_headers, next_headers, regenerations>>
      ]_vars

\* A second profile, built by the first call after the expiry of the
\* first, sent again by a call made later in its lifetime.
C13_Witness ==
    \E t \in Tasks :
        /\ regenerations = 2
        /\ pc[t] = "dispatch" /\ dispatches[t] = 1
        /\ stamp[t] = now /\ now > MaxTime
        /\ now > next_headers - Lifetime /\ now <= next_headers
        /\ Carries(headers[t], cached_headers.dict)

\* C19: the headers a call sends are the default headers overridden by the
\* explicit headers of the call and, with spoofing, that overridden by the
\* profile; without spoofing a default header the caller does not override
\* is sent.
C19_HeaderMerge ==
    \A t \in Tasks :
        pc[t] \in {"throttle", "dispatch", "backoff"}
        => headers[t] =
              Merge(Merge(default_headers, req[t].headers.dict),
                    IF spoof_headers THEN cached_headers.dict ELSE EmptyDict)

(***************************************************************************)
(* The construction of a RateLimit.                                        *)
(***************************************************************************)
\* The arguments C14 names: per-route keys without a route function, or a
\* range_req (a, b) with a >= b or a <= 0.
NamedInvalid(limit) ==
    \/ limit.rate_limit_per_route /\ limit.get_route_path = None
    \/ /\ limit.range_req # None
       /\ \/ limit.range_req[1] >= limit.range_req[2]
          \/ limit.range_req[1] <= 0

\* C14: the construction of a RateLimit with rate_limit_per_route and no
\* get_route_path, or with a range_req (a, b) where a >= b or a <= 0, fails
\* with ValueError, and no limiter is ever used with such settings: no last
\* call is stamped and no request runs.
C14_InvalidLimitRejected ==
    NamedInvalid(settings)
    => /\ constructed \in {"pending", "ValueError"}
       /\ last_calls = EmptyDict
       /\ \A t \in Tasks : pc[t] = "idle"

\* The construction has failed for arguments whose only fault is the lower
\* bound of range_req.
C14_Witness ==
    /\ constructed = "ValueError"
    /\ settings.range_req # None
    /\ settings.range_req[1] < settings.range_req[2]
    /\ settings.range_req[1] <= 0
    /\ ~settings.rate_limit_per_route
    /\ settings.max_req > 0

(***************************************************************************)
(* What a transport outcome does to the chain.                             *)
(***************************************************************************)
\* do_req of task t runs on the outcome of its transport call, which is
\* response'[t].
Responds(t) == pc[t] = "dispatch" /\ pc'[t] \in {"backoff", "done"}

Is2xx(status) == status \in 200 .. 299

\* The last outcome task t saw is a response of the direct transport.
Answered(t) == ~use_playwright /\ response[t].kind = "response"

\* The chain of task t retries, or has retried until exhaustion.
Retries(t) == pc[t] \in {"backoff", "dispatch"} \/ Ended(t, "BackoffExhausted")

\* C15: the response cache changes only when a dispatch ends its chain in
\* Success on a response with a 2xx status and a non-empty body; the entry
\* written is the non-empty value returned to the caller, under the
\* fingerprint of the call.  A dispatch that fails or is retried, and a
\* chain that fails, write nothing.
C15_CacheOnlyFromSuccess ==
    [][cached_responses' # cached_responses
       => \E t \in Tasks :
              /\ Responds(t) /\ pc'[t] = "done" /\ result'[t].kind = "Success"
              /\ response'[t].kind = "response"
              /\ Is2xx(response'[t].status)
              /\ response'[t].body # ""
              /\ result'[t].value \notin {"", None}
              /\ cached_responses' =
                     Put(cached_responses, HashOf(req[t]), result'[t].value)
      ]_vars

\* C16: a response of the direct transport with status 200 and an empty
\* body is never returned and never cached, in JSON mode and in text mode:
\* the chain backs off and dispatches again, or is exhausted.
C16_EmptyBodyRetried ==
    \A t \in Tasks :
        Answered(t) /\ response[t].status = 200 /\ response[t].body = ""
        => /\ Retries(t)
           /\ HashOf(req[t]) \notin DOMAIN cached_responses

\* C17: on the direct transport a response with a 2xx status and a
\* non-empty document ends the chain in Success, and a response goes to
\* the backoff because of its status exactly when the status is outside
\* 2xx and not an immediate-stop status.
C17_Only2xxSucceeds ==
    \A t \in Tasks :
        Answered(t)
        => /\ Is2xx(response[t].status) /\ response[t].body = "v"
              => Ended(t, "Success") /\ result[t].value = "v"
           /\ ~Is2xx(response[t].status)
                 /\ response[t].status \notin immediately_stop_statuses
              => Retries(t)

\* The outcome o is an error the handler of do_req for request rq does not
\* retry: an exception of the transport, or of the decoding of the body,
\* of a type neither recognised nor in retry_errors.
Unclassified(rq, o) ==
    LET exc == IF o.kind = "error" THEN o.exc ELSE Decode(rq.json, o.body).value
    IN  /\ \/ o.kind = "error"
           \/ o.kind = "response" /\ o.status = 200 /\ ~Decode(rq.json, o.body).ok
        /\ exc \notin RecognisedErrors \cup rq.retry_errors

\* C18: an error of a dispatch whose type is neither recognised nor in the
\* call's retry_errors ends the chain in that step with that same error,
\* at whatever attempt: no sleep, no further transport call and no cache
\* write follow, and no other failure replaces it.
C18_UnclassifiedPropagates ==
    [][\A t \in Tasks :
          Responds(t) /\ ~use_playwright /\ Unclassified(req[t], response'[t])
          => /\ pc'[t] = "done"
             /\ result'[t].kind = "Error"
             /\ result'[t].value =
                    IF response'[t].kind = "error" THEN response'[t].exc
                    ELSE Decode(req[t].json, response'[t].body).value
             /\ UNCHANGED <<sleeps, dispatches, backoffs, cached_responses>>
      ]_vars

\* An unclassified error of the last attempt of a chain whose earlier
\* attempts were retried from inside the try block of do_req.
C18_Witness ==
    \E t \in Tasks :
        /\ Ended(t, "Error") /\ result[t].value = "ValueError"
        /\ response[t] = Failure("ValueError")
        /\ nested[t]
        /\ dispatches[t] = max_backoffs + 1

\* C20: the last-call stamp of a key is written when the gate opens for a
\* call that misses the cache, to the time of the opening, and by nothing
\* else: the retries, the backoff sleeps and the end of a chain change no
\* stamp and do not go back to the gate.
C20_StampedOncePerChain ==
    [][/\ \A t \in Tasks :
             Passes(t) => last_calls' = Put(last_calls, ClaimKey(req'[t].url), now)
       /\ \A t \in Tasks :
             pc[t] \in {"dispatch", "backoff"} /\ pc'[t] # pc[t]
             => /\ last_calls' = last_calls
                /\ pc'[t] \in {"dispatch", "backoff", "done"}
                /\ UNCHANGED <<utcnow, wake>>
       /\ last_calls' # last_calls => \E t \in Tasks : Passes(t)
      ]_vars

\* The last retry of a chain, dispatched after the stamp its grant wrote.
C20_Witness ==
    \E t \in Tasks :
        /\ pc[t] = "dispatch" /\ dispatches[t] = max_backoffs + 1
        /\ ClaimKey(req[t].url) \in DOMAIN last_calls
        /\ last_calls[ClaimKey(req[t].url)] < now

====
